---- MODULE Spec2Model ----
(***************************************************************************)
(* Model of src/src/model/encdec.py: the encoder-decoder graph built by    *)
(* EncoderDecoder.build_model (scan, conditional output, conditional loss, *)
(* aggregate loss) and the incremental generator EncoderDecoder.generate.  *)
(*                                                                         *)
(* Tensors are sequences; the batch axis is kept (batch_size is 1).        *)
(* Real-valued arithmetic of the numeric backend is abstracted: hidden     *)
(* units take values in {0, 1}, parameters are small integers, the         *)
(* cross-entropy is an integer log-sum-exp and the aggregate loss is an    *)
(* exact fraction.  The recurrent cells are fixed but arbitrary            *)
(* deterministic step functions of (input, state).                         *)
(***************************************************************************)
EXTENDS Integers, Sequences, FiniteSets, TLC

VARIABLES
    rnn_type,      \* constructor argument: "rnn", "gru" or "lstm"
    rnn_size,      \* constructor argument: number of hidden units
    has_kg,        \* hasattr(self, 'kg'): TRUE for AttnEncoderDecoder
    pc,            \* "idle", "tested", "decode", "done", "raised" (an exception left generate)
    inputs,        \* generate argument: token prefix, shape [1, n]
    entities,      \* generate argument: entity annotations, shape [1, n, cache]
    stop_symbols,  \* generate argument
    max_len,       \* generate argument (None or an integer)
    init_state,    \* generate argument (None or a state)
    state,         \* generate local: the carried state
    preds,         \* generate local: the generated tokens
    input_,        \* generate local: next decoder input, shape [1, 1]
    entity,        \* generate local: entity cache fed to the next step
    carry,         \* the caller's copy of the state the last generate returned
    sess_runs,     \* the feed_dict of every sess.run of the current operation
    tensors        \* the graph's tensors in the operation's latest sess.run (None before it)

vars == <<rnn_type, rnn_size, has_kg, pc, inputs, entities, stop_symbols,
          max_len, init_state, state, preds, input_, entity, carry, sess_runs,
          tensors>>

---------------------------------------------------------------------------
(* Bounds of the model *)

VocabSize == 2    \* vocab_size: tokens are 0 .. VocabSize - 1
MaxPrefix == 2    \* longest prefix passed to generate
MaxMaxLen == 2    \* largest integer max_len passed to generate

(* Program constants *)

batch_size == 1
entity_cache_size == 2
seq_len == 4

Vocab == 0 .. (VocabSize - 1)
RnnTypes == {"rnn", "gru", "lstm"}
RnnSizes == {1, 2}
MaxSteps == MaxMaxLen + 1

None == [tag |-> "None"]
PyInt(k) == [tag |-> "int", v |-> k]
NDArray(v) == [tag |-> "ndarray", v |-> v]
LSTMStateTuple(c, h) == [tag |-> "tuple", c |-> c, h |-> h]

RECURSIVE SumSeq(_)
SumSeq(s) == IF s = <<>> THEN 0 ELSE s[1] + SumSeq(Tail(s))

RECURSIVE Pow2(_)
Pow2(k) == IF k <= 0 THEN 1 ELSE 2 * Pow2(k - 1)

RECURSIVE CeilLog2(_)
CeilLog2(k) == IF k <= 1 THEN 0 ELSE 1 + CeilLog2((k + 1) \div 2)

SeqsUpTo(S, n) == UNION {[1..k -> S] : k \in 1..n}

---------------------------------------------------------------------------
(* Parameters of the graph (tf.get_variable) *)

\* embedding: [vocab_size, rnn_size]
embedding(tok) == [i \in 1..rnn_size |-> ((tok + 1) \div i) % 2]

\* output_w: [cell.output_size, vocab_size]
output_w(i, v) == ((i + v + 1) % 2) * (2 + (v \div 2))

\* output_b: [vocab_size]
output_b(v) == (v + 1) % 2

---------------------------------------------------------------------------
(* time_major: [batch_size, seq_len, ..] -> [seq_len, batch_size, ..] *)

time_major(batch_input, rank) ==
    [t \in 1..Len(batch_input[1]) |->
        [b \in 1..Len(batch_input) |-> batch_input[b][t]]]

---------------------------------------------------------------------------
(* Recurrent cells: cell(x, state) = <<output, new state>>, per batch row *)

Nxt(i) == (i % rnn_size) + 1

BasicRNNCell(x, s) ==
    LET new == [b \in 1..Len(x) |-> [i \in 1..rnn_size |->
                   (1 + x[b][i] * s.v[b][Nxt(i)] + s.v[b][i] * (1 - x[b][i])) % 2]]
    IN  <<new, NDArray(new)>>

GRUCell(x, s) ==
    LET new == [b \in 1..Len(x) |-> [i \in 1..rnn_size |->
                   (s.v[b][i] + x[b][i]) % 2]]
    IN  <<new, NDArray(new)>>

LSTMCell(x, s) ==
    LET c == [b \in 1..Len(x) |-> [i \in 1..rnn_size |->
                 (s.c[b][i] + x[b][i] * (1 + s.h[b][Nxt(i)])) % 2]]
        h == [b \in 1..Len(x) |-> [i \in 1..rnn_size |->
                 c[b][i] * c[b][Nxt(i)]]]
    IN  <<h, LSTMStateTuple(c, h)>>

recurrent_cell(x, s) ==
    CASE rnn_type = "rnn"  -> BasicRNNCell(x, s)
      [] rnn_type = "gru"  -> GRUCell(x, s)
      [] rnn_type = "lstm" -> LSTMCell(x, s)

Zeros(n) == [b \in 1..batch_size |-> [i \in 1..n |-> 0]]

\* cell.zero_state(self.batch_size, tf.float32)
zero_state ==
    IF rnn_type = "lstm"
    THEN LSTMStateTuple(Zeros(rnn_size), Zeros(rnn_size))
    ELSE NDArray(Zeros(rnn_size))

---------------------------------------------------------------------------
(* Attention cell and knowledge-graph context (AttnRNNCell, kg)            *)

\* context vector of one entity id; the sentinel -1 contributes nothing
kg_context(id) ==
    [i \in 1..rnn_size |-> IF id = -1 THEN 0 ELSE ((id + 1) \div i) % 2]

\* x = [tok |-> token embeddings, ent |-> entity ids of the step]
AttnRNNCell(x, s) ==
    LET base == recurrent_cell(x.tok, s)
        out  == [b \in 1..Len(x.tok) |-> [i \in 1..rnn_size |->
                    (base[1][b][i]
                     + SumSeq([k \in 1..Len(x.ent[b]) |-> kg_context(x.ent[b][k])[i]])) % 2]]
    IN  <<out, base[2]>>

\* _build_rnn_cell: the cell of the model
cell(x, s) == IF has_kg THEN AttnRNNCell(x, s) ELSE recurrent_cell(x, s)

---------------------------------------------------------------------------
(* The graph of build_model, evaluated on a feed_dict                      *)

Fed(feed, key) == key \in DOMAIN feed

\* tf.nn.embedding_lookup(params, ind): row ind (0-based) of params
embedding_lookup(params, ind) == params[ind + 1]

\* _build_rnn_inputs: the time-major inputs of the scan, one per step
build_rnn_inputs(feed) ==
    LET input_tokens ==
            time_major([b \in 1..Len(feed.input_data) |->
                           [t \in 1..Len(feed.input_data[b]) |->
                               embedding(feed.input_data[b][t])]], 3)
    IN  IF has_kg
        THEN LET input_entities == time_major(feed.input_entities, 3)
             IN  [t \in 1..Len(input_tokens) |->
                     [tok |-> input_tokens[t], ent |-> input_entities[t]]]
        ELSE input_tokens

\* tf.scan(lambda a, x: cell(x, a[1]), inputs, initializer=a): the accumulators
RECURSIVE scan(_, _)
scan(xs, a) ==
    IF xs = <<>> THEN <<>>
    ELSE LET a1 == cell(Head(xs), a[2])
         IN  <<a1>> \o scan(Tail(xs), a1)

\* the stacked states tensor(s) that tf.scan returns, in the state's structure
StackStates(accs) ==
    IF rnn_type = "lstm"
    THEN LSTMStateTuple([t \in 1..Len(accs) |-> accs[t][2].c],
                        [t \in 1..Len(accs) |-> accs[t][2].h])
    ELSE NDArray([t \in 1..Len(accs) |-> accs[t][2].v])

\* nest.flatten / nest.pack_sequence_as
flatten(s) == IF s.tag = "tuple" THEN <<s.c, s.h>> ELSE <<s.v>>
pack_sequence_as(s, flat) ==
    IF s.tag = "tuple" THEN LSTMStateTuple(flat[1], flat[2]) ELSE NDArray(flat[1])

\* variant: the state of the first step is taken
get_final_state_first(states) ==
    LET flat_states == flatten(states)
        flat_first_states == [k \in 1..Len(flat_states) |->
                                 embedding_lookup(flat_states[k], 0)]
    IN  pack_sequence_as(states, flat_first_states)

get_final_state(states) ==
    LET flat_states == flatten(states)
        last_ind == Len(flat_states[1]) - 1
        flat_last_states == [k \in 1..Len(flat_states) |->
                                embedding_lookup(flat_states[k], last_ind)]
    IN  pack_sequence_as(states, flat_last_states)

\* tf.matmul(h, w) + b
Project(h) ==
    [b \in 1..Len(h) |-> [v \in 1..VocabSize |->
        SumSeq([i \in 1..Len(h[b]) |-> h[b][i] * output_w(i, v - 1)]) + output_b(v - 1)]]

\* variant: the projection is computed whatever the flag
cond_output_unconditional(h, write) == Project(h)

cond_output(h, write) ==
    LET enc == [b \in 1..batch_size |-> [v \in 1..VocabSize |-> 0]]
        dec == Project(h)
    IN  IF write[1] THEN dec ELSE enc

\* tf.nn.sparse_softmax_cross_entropy_with_logits, in bits, rounded up
sparse_softmax_cross_entropy_with_logits(output, target) ==
    [b \in 1..Len(output) |->
        CeilLog2(SumSeq([v \in 1..Len(output[b]) |-> Pow2(output[b][v])]))
        - output[b][target[b] + 1]]

\* variant: the cross-entropy is computed whatever the flag
cond_loss_unconditional(output, target, write) ==
    sparse_softmax_cross_entropy_with_logits(output, target)

cond_loss(output, target, write) ==
    LET loss == sparse_softmax_cross_entropy_with_logits(output, target)
        skip == [b \in 1..batch_size |-> 0]
    IN  IF write[1] THEN loss ELSE skip

\* tf.map_fn(cond_output, (rnn_outputs, iswrite))
tf_map_fn_output(rnn_outputs, iswrite) ==
    [t \in 1..Len(rnn_outputs) |-> cond_output(rnn_outputs[t], iswrite[t])]

\* tf.map_fn(cond_loss, (self.outputs, time_major(self.targets, 2), iswrite))
tf_map_fn_loss(outputs, targets, iswrite) ==
    [t \in 1..Len(outputs) |-> cond_loss(outputs[t], targets[t], iswrite[t])]

\* tf.reduce_sum over both axes
reduce_sum(t) == SumSeq([i \in 1..Len(t) |-> SumSeq(t[i])])

\* exact quotient num/den
Frac(n, d) == [num |-> n, den |-> d]
FracDiv(q, k) == Frac(q.num, q.den * k)

\* variant: the sum is not divided by the sequence length
loss_of_sum(seq_loss) == FracDiv(Frac(reduce_sum(seq_loss), 1), batch_size)

loss_of(seq_loss) ==
    FracDiv(FracDiv(Frac(reduce_sum(seq_loss), 1), batch_size), Len(seq_loss))

\* the shapes of a feed_dict fit the placeholders and each other
FeedOK(feed) ==
    /\ Len(feed.input_data) = batch_size
    /\ Len(feed.input_data[1]) >= 1
    /\ Fed(feed, "input_iswrite") =>
          /\ Len(feed.input_iswrite) = batch_size
          /\ Len(feed.input_iswrite[1]) = Len(feed.input_data[1])
    /\ Fed(feed, "targets") =>
          /\ Len(feed.targets) = batch_size
          /\ Len(feed.targets[1]) = Len(feed.input_data[1])
    /\ has_kg =>
          /\ Fed(feed, "input_entities")
          /\ Len(feed.input_entities) = batch_size
          /\ Len(feed.input_entities[1]) = Len(feed.input_data[1])
          /\ \A t \in 1..Len(feed.input_entities[1]) :
                Len(feed.input_entities[1][t]) = entity_cache_size

\* every tensor of the graph under a feed_dict (None: a placeholder it needs is not fed)
Tensors(feed) ==
    LET init    == IF Fed(feed, "init_state") THEN feed.init_state ELSE zero_state
        accs    == scan(build_rnn_inputs(feed), <<Zeros(rnn_size), init>>)
        rnn_outputs == [t \in 1..Len(accs) |-> accs[t][1]]
        states  == StackStates(accs)
        iswrite == time_major(feed.input_iswrite, 2)
        outputs == tf_map_fn_output(rnn_outputs, iswrite)
        seq_loss == tf_map_fn_loss(outputs, time_major(feed.targets, 2), iswrite)
    IN  [rnn_outputs |-> rnn_outputs,
         states      |-> states,
         final_state |-> get_final_state(states),
         outputs     |-> IF Fed(feed, "input_iswrite") THEN outputs ELSE None,
         seq_loss    |-> IF Fed(feed, "input_iswrite") /\ Fed(feed, "targets")
                         THEN seq_loss ELSE None,
         loss        |-> IF Fed(feed, "input_iswrite") /\ Fed(feed, "targets")
                         THEN loss_of(seq_loss) ELSE None]

---------------------------------------------------------------------------
(* Python and numpy helpers used by generate                               *)

\* bool(x) of `if init_state:` raises ValueError on an array of several elements
BoolRaises(x) == x.tag = "ndarray" /\ Len(x.v) * Len(x.v[1]) > 1

\* bool(x): None is false, a non-empty tuple is true, a one-element array is its element
Bool(x) ==
    CASE x.tag = "None"    -> FALSE
      [] x.tag = "tuple"   -> TRUE
      [] x.tag = "ndarray" -> x.v[1][1] # 0

\* variant: the cap is tested one step late
LenEquals_late(p, m) == m.tag = "int" /\ Len(p) = m.v + 1

\* len(preds) == max_len (an int never equals None)
LenEquals(p, m) == m.tag = "int" /\ Len(p) = m.v

\* variant: the whole prefix is read, the last token included
AllButLast_whole(a) == a

\* a[:, :-1] and a[:, :-1, :]
AllButLast(a) == [b \in 1..Len(a) |-> SubSeq(a[b], 1, Len(a[b]) - 1)]

\* np.expand_dims(inputs[:, -1], 1)
LastInput(a) == [b \in 1..Len(a) |-> <<a[b][Len(a[b])]>>]

\* variant: the annotations of every position are kept
LastEntity_every(a) == a

\* np.expand_dims(entities[:, -1, :], 1)
LastEntity(a) == [b \in 1..Len(a) |-> <<a[b][Len(a[b])]>>]

\* index (0-based) of the first largest element
ArgMaxVec(v) ==
    (CHOOSE i \in 1..Len(v) :
        /\ \A j \in 1..Len(v) : v[j] <= v[i]
        /\ \A j \in 1..(i - 1) : v[j] < v[i]) - 1

\* np.argmax(output, axis=2)
argmax(output) ==
    [t \in 1..Len(output) |-> [b \in 1..Len(output[t]) |-> ArgMaxVec(output[t][b])]]

\* np.asarray(flat).reshape([1, -1, size]) of a flat list
Reshape(flat, size) ==
    <<[t \in 1..(Len(flat) \div size) |->
         [k \in 1..size |-> flat[(t - 1) * size + k]]]>>

---------------------------------------------------------------------------
(* Collaborators of generate: vocabulary, lexicon, get_entities            *)

\* vocab.to_word
to_word(tok) == <<"w", tok>>

\* the words the lexicon knows as entities, and lexicon.entity_to_id
IsEntityWord(w) == w[2] % 2 = 1
entity_to_id(w) == w[2] \div 2

\* the last `size` entities mentioned in words, left-padded with -1
get_entities(words, size) ==
    LET mentioned == SelectSeq(words, IsEntityWord)
        ids  == [k \in 1..Len(mentioned) |-> entity_to_id(mentioned[k])]
        kept == IF Len(ids) > size THEN SubSeq(ids, Len(ids) - size + 1, Len(ids)) ELSE ids
    IN  [k \in 1..(size - Len(kept)) |-> -1] \o kept

\* lines 184-187 of generate: the new entity cache after preds
UpdateEntity(ps) ==
    Reshape(get_entities([k \in 1..Len(ps) |-> to_word(ps[k])], entity_cache_size),
            entity_cache_size)

---------------------------------------------------------------------------
(* Arguments the callers pass                                              *)

MaxLens == {None} \cup {PyInt(k) : k \in 0..MaxMaxLen}

\* test(): every position annotated [-1, 1]
TestEntities(n) ==
    <<[t \in 1..n |-> [k \in 1..entity_cache_size |-> IF k = 1 THEN -1 ELSE 1]]>>

\* annotations that differ from position to position
RunningEntities(n) ==
    <<[t \in 1..n |-> [k \in 1..entity_cache_size |->
                          IF k < entity_cache_size THEN -1 ELSE (t - 1) % 2]]>>

EntityArgs(n) == IF has_kg THEN {RunningEntities(n)} ELSE {TestEntities(n)}

---------------------------------------------------------------------------
(* State machine                                                           *)

Init ==
    /\ rnn_type \in RnnTypes
    /\ rnn_size \in RnnSizes
    /\ has_kg \in BOOLEAN
    /\ pc = "idle"
    /\ inputs = <<>>
    /\ entities = <<>>
    /\ stop_symbols = {}
    /\ max_len = None
    /\ init_state = None
    /\ state = None
    /\ preds = <<>>
    /\ input_ = <<>>
    /\ entity = <<>>
    /\ carry = None
    /\ sess_runs = <<>>
    /\ tensors = None

\* test(), lines 191-211: one forward pass over a random sequence of at most
\* seq_len steps
TestFeed(data, iswrite) ==
    LET n == Len(data) - 1
        base == [input_data    |-> <<SubSeq(data, 1, n)>>,
                 input_iswrite |-> <<iswrite>>,
                 targets       |-> <<SubSeq(data, 2, n + 1)>>]
    IN  IF has_kg
        THEN base @@ [kg_input |-> "kb", input_entities |-> TestEntities(n)]
        ELSE base

ForwardPass ==
    /\ pc = "idle"
    /\ carry = None
    /\ \E n \in 1..seq_len :
       \E data \in [1..(n + 1) -> Vocab], iswrite \in [1..n -> BOOLEAN] :
          LET feed == TestFeed(data, iswrite)
          IN  /\ sess_runs' = <<feed>>
              /\ tensors' = Tensors(feed)
    /\ pc' = "tested"
    /\ UNCHANGED <<rnn_type, rnn_size, has_kg, inputs, entities, stop_symbols,
                   max_len, init_state, state, preds, input_, entity, carry>>

\* generate, lines 141-146: the feed_dict before priming
EncodeFeed(st) ==
    LET a == IF Bool(st) THEN [init_state |-> st] ELSE <<>>
        b == IF has_kg THEN [kg_input |-> "kb"] ELSE <<>>
    IN  a @@ b

\* generate, lines 150-152: the feed_dict of the priming run
PrimeFeed(ins, ents, st) ==
    LET c == [input_data |-> AllButLast(ins)]
        d == IF has_kg THEN [input_entities |-> AllButLast(ents)] ELSE <<>>
    IN  c @@ d @@ EncodeFeed(st)

\* generate, lines 139-162: argument check, priming, set-up of the decoding loop
GenerateEncode ==
    /\ pc = "idle"
    /\ \E p \in SeqsUpTo(Vocab, MaxPrefix), ss \in SUBSET Vocab, ml \in MaxLens,
          st \in {None, carry} :
       \E ents \in EntityArgs(Len(p)) :
          /\ init_state' = st
          /\ IF BoolRaises(st)
             THEN /\ pc' = "raised"
                  /\ inputs' = <<>>
                  /\ entities' = <<>>
                  /\ stop_symbols' = {}
                  /\ max_len' = None
                  /\ state' = None
                  /\ preds' = <<>>
                  /\ input_' = <<>>
                  /\ entity' = <<>>
                  /\ sess_runs' = <<>>
                  /\ tensors' = None
             ELSE /\ inputs' = <<p>>
                  /\ entities' = ents
                  /\ stop_symbols' = ss
                  /\ max_len' = ml
                  /\ IF Len(p) > 1
                     THEN LET feed == PrimeFeed(<<p>>, ents, st)
                          IN  /\ tensors' = Tensors(feed)
                              /\ state' = tensors'.final_state
                              /\ sess_runs' = <<feed>>
                     ELSE /\ state' = st
                          /\ sess_runs' = <<>>
                          /\ tensors' = None
                  /\ preds' = <<>>
                  /\ input_' = LastInput(<<p>>)
                  /\ entity' = LastEntity(ents)
                  /\ pc' = "decode"
    /\ UNCHANGED <<rnn_type, rnn_size, has_kg, carry>>

\* variant: the carried state is not fed back
DecodeFeed_stateless(inp, st, ent) ==
    LET a == [input_data |-> inp, input_iswrite |-> <<<<TRUE>>>>]
        c == IF has_kg THEN [kg_input |-> "kb", input_entities |-> ent] ELSE <<>>
    IN  a @@ c

\* generate, lines 165-171: the feed_dict of one decoding step
DecodeFeed(inp, st, ent) ==
    LET a == [input_data |-> inp, input_iswrite |-> <<<<TRUE>>>>]
        b == IF st # None THEN [init_state |-> st] ELSE <<>>
        c == IF has_kg THEN [kg_input |-> "kb", input_entities |-> ent] ELSE <<>>
    IN  a @@ b @@ c

\* variant: only the length cap ends the loop
Break_cap_only(pred, ps, ss, ml) == LenEquals(ps, ml)

\* generate, line 180: the loop's exit test
Break(pred, ps, ss, ml) == pred \in ss \/ LenEquals(ps, ml)

\* generate, lines 164-187: one iteration of the decoding loop
DecodeStep ==
    /\ pc = "decode"
    /\ Len(preds) < MaxSteps
    /\ LET feed == DecodeFeed(input_, state, entity)
       IN  IF ~FeedOK(feed)
           THEN /\ pc' = "raised"
                /\ inputs' = <<>>
                /\ entities' = <<>>
                /\ stop_symbols' = {}
                /\ max_len' = None
                /\ state' = None
                /\ preds' = <<>>
                /\ input_' = <<>>
                /\ entity' = <<>>
                /\ sess_runs' = <<>>
                /\ tensors' = None
                /\ UNCHANGED init_state
           ELSE /\ UNCHANGED <<inputs, entities, stop_symbols, max_len, init_state>>
                /\ tensors' = Tensors(feed)
                /\ state' = tensors'.final_state
                /\ input_' = argmax(tensors'.outputs)
                /\ preds' = Append(preds, input_'[1][1])
                /\ sess_runs' = Append(sess_runs, feed)
                /\ IF Break(input_'[1][1], preds', stop_symbols, max_len)
                   THEN /\ pc' = "done"
                        /\ UNCHANGED entity
                   ELSE /\ pc' = "decode"
                        /\ entity' = IF has_kg THEN UpdateEntity(preds') ELSE entity
    /\ UNCHANGED <<rnn_type, rnn_size, has_kg, carry>>

\* the caller receives (preds, state) and keeps the state for its next call
Return ==
    /\ pc \in {"done", "raised"}
    /\ carry' = IF pc = "done" THEN state ELSE carry
    /\ pc' = "idle"
    /\ inputs' = <<>>
    /\ entities' = <<>>
    /\ stop_symbols' = {}
    /\ max_len' = None
    /\ init_state' = None
    /\ state' = None
    /\ preds' = <<>>
    /\ input_' = <<>>
    /\ entity' = <<>>
    /\ sess_runs' = <<>>
    /\ tensors' = None
    /\ UNCHANGED <<rnn_type, rnn_size, has_kg>>

Next == ForwardPass \/ GenerateEncode \/ DecodeStep \/ Return

Spec == Init /\ [][Next]_vars

---------------------------------------------------------------------------
(* Properties of generate                                                  *)

InGenerate == pc \in {"decode", "done"}
Prefix == inputs[1]
Capped == max_len.tag = "int" /\ max_len.v >= 1

\* the feeds of the decoding steps, and of the priming pass, of the current call
IsDecodeFeed(feed) == Fed(feed, "input_iswrite")
DecodeRuns == SelectSeq(sess_runs, IsDecodeFeed)
IsPrimeFeed(feed) == ~Fed(feed, "input_iswrite")
PrimeRuns == SelectSeq(sess_runs, IsPrimeFeed)

\* the state a run starts from: the fed init_state, else the graph's zero state
StartOf(feed) == IF Fed(feed, "init_state") THEN feed.init_state ELSE zero_state

\* C1 as stated: whatever integer max_len is, no more than max_len tokens are
\* generated and the returned list is no longer than max_len.
C1_AnyMaxLen ==
    (InGenerate /\ max_len.tag = "int") => Len(preds) <= max_len.v

\* C1 amended: with an integer max_len >= 1 the loop runs at most max_len
\* steps, ends at the first stop token or at step max_len, and returns at
\* most max_len tokens; with max_len None or below 1 there is no cap and the
\* loop ends only on a stop token.
C1_Termination ==
    /\ (InGenerate /\ Capped) =>
          /\ Len(DecodeRuns) = Len(preds)
          /\ Len(preds) <= max_len.v
          /\ pc = "decode" =>
                /\ Len(preds) < max_len.v
                /\ \A i \in 1..Len(preds) : preds[i] \notin stop_symbols
          /\ pc = "done" =>
                \/ preds[Len(preds)] \in stop_symbols
                \/ Len(preds) = max_len.v
    /\ (pc = "done" /\ ~Capped) => preds[Len(preds)] \in stop_symbols

\* C1 witness: a call that ran into the cap at step 2 without a stop token
C1_Witness ==
    /\ pc = "done"
    /\ max_len = PyInt(2)
    /\ Len(preds) = 2
    /\ preds[2] \notin stop_symbols

\* C9: a returned list is non-empty, has no stop symbol before its last
\* position, and its last token is a stop symbol or its length is exactly
\* max_len; without stop symbols its length is exactly max_len.
C9_ReturnedList ==
    pc = "done" =>
        /\ Len(preds) >= 1
        /\ \A i \in 1..(Len(preds) - 1) : preds[i] \notin stop_symbols
        /\ \/ preds[Len(preds)] \in stop_symbols
           \/ (max_len.tag = "int" /\ Len(preds) = max_len.v)
        /\ stop_symbols = {} => (max_len.tag = "int" /\ Len(preds) = max_len.v)

\* C9 witness: a list of two tokens ended by a stop symbol before any cap
C9_Witness ==
    /\ pc = "done"
    /\ Len(preds) = 2
    /\ preds[1] \notin stop_symbols
    /\ preds[2] \in stop_symbols
    /\ max_len # PyInt(2)

RECURSIVE ConcatTokens(_)
ConcatTokens(runs) ==
    IF runs = <<>> THEN <<>> ELSE Head(runs).input_data[1] \o ConcatTokens(Tail(runs))

RECURSIVE ConcatEntities(_)
ConcatEntities(runs) ==
    IF runs = <<>> THEN <<>>
    ELSE Head(runs).input_entities[1] \o ConcatEntities(Tail(runs))

SinglePass(tokens, ents, start) ==
    [input_data |-> <<tokens>>, init_state |-> start]
    @@ (IF has_kg THEN [input_entities |-> <<ents>>] ELSE <<>>)

\* C10: the returned state is the state after the prefix and the first k-1
\* of the k generated tokens; the last generated token was never fed.
C10_StateOneBehind ==
    pc = "done" =>
        LET k == Len(preds)
            consumed == Prefix \o SubSeq(preds, 1, k - 1)
            start == IF init_state = None THEN zero_state ELSE init_state
        IN  /\ ConcatTokens(sess_runs) = consumed
            /\ state = Tensors(SinglePass(consumed,
                                          IF has_kg THEN ConcatEntities(sess_runs) ELSE <<>>,
                                          start)).final_state

\* C10 witness: a call that returned two tokens, the second never fed
C10_Witness ==
    /\ pc = "done"
    /\ Len(preds) = 2
    /\ Len(Prefix) = 2
    /\ Len(ConcatTokens(sess_runs)) = 3

---------------------------------------------------------------------------
(* Properties of the graph, on the latest sess.run                         *)

HasRun == tensors # None
LastFeed == sess_runs[Len(sess_runs)]
Steps == Len(LastFeed.input_data[1])

\* the state before step t of the latest run, read off the stacked states
StateBefore(t) ==
    IF t = 1 THEN StartOf(LastFeed)
    ELSE pack_sequence_as(tensors.states,
                          [k \in 1..Len(flatten(tensors.states)) |->
                              flatten(tensors.states)[k][t - 1]])

StateAfter(t) == StateBefore(t + 1)

\* C8: step t runs the cell on input t and the state produced by step t-1
\* (the initial state for the first step), and the final state is the state
\* produced by the last step.
C8_ScanOrder ==
    HasRun =>
        LET xs == build_rnn_inputs(LastFeed)
        IN  /\ Len(tensors.rnn_outputs) = Steps
            /\ \A k \in 1..Len(flatten(tensors.states)) :
                  Len(flatten(tensors.states)[k]) = Steps
            /\ \A t \in 1..Steps :
                  /\ tensors.rnn_outputs[t] = cell(xs[t], StateBefore(t))[1]
                  /\ StateAfter(t) = cell(xs[t], StateBefore(t))[2]
            /\ tensors.final_state = StateAfter(Steps)

\* C8 witness: a pass of seq_len steps whose last state differs from the
\* initial state and from the state of every earlier step
C8_Witness ==
    /\ pc = "tested"
    /\ Steps = seq_len
    /\ tensors.final_state # zero_state
    /\ \A t \in 1..(Steps - 1) : StateAfter(t) # tensors.final_state

\* C3: the logits of a step are the zero vector of vocabulary size when the
\* step's write flag is false, and h*w + b of the step's hidden output when
\* it is true.
C3_CondOutput ==
    (HasRun /\ Fed(LastFeed, "input_iswrite")) =>
        /\ Len(tensors.outputs) = Steps
        /\ \A t \in 1..Steps : \A b \in 1..batch_size :
              /\ Len(tensors.outputs[t][b]) = VocabSize
              /\ \A v \in 1..VocabSize :
                    tensors.outputs[t][b][v] =
                        IF LastFeed.input_iswrite[b][t]
                        THEN SumSeq([i \in 1..rnn_size |->
                                 tensors.rnn_outputs[t][b][i] * output_w(i, v - 1)])
                             + output_b(v - 1)
                        ELSE 0

\* C3 witness: a pass with a write step of non-zero logits and a read step
C3_Witness ==
    /\ pc = "tested"
    /\ \E t \in 1..Steps :
          /\ LastFeed.input_iswrite[1][t]
          /\ \E v \in 1..VocabSize : tensors.outputs[t][1][v] # 0
    /\ \E t \in 1..Steps : ~LastFeed.input_iswrite[1][t]

\* C4: the loss of a step is zero when the step's write flag is false and
\* the cross-entropy of the step's logits and target when it is true.
C4_CondLoss ==
    (HasRun /\ Fed(LastFeed, "input_iswrite") /\ Fed(LastFeed, "targets")) =>
        /\ Len(tensors.seq_loss) = Steps
        /\ \A t \in 1..Steps :
              tensors.seq_loss[t] =
                  IF LastFeed.input_iswrite[1][t]
                  THEN sparse_softmax_cross_entropy_with_logits(
                           tensors.outputs[t],
                           [b \in 1..batch_size |-> LastFeed.targets[b][t]])
                  ELSE [b \in 1..batch_size |-> 0]

\* C4 witness: a pass with a write step of positive loss and a read step
C4_Witness ==
    /\ pc = "tested"
    /\ \E t \in 1..Steps : LastFeed.input_iswrite[1][t] /\ tensors.seq_loss[t][1] > 0
    /\ \E t \in 1..Steps : ~LastFeed.input_iswrite[1][t] /\ tensors.seq_loss[t][1] = 0

\* C5: loss * (sequence length * batch size) = sum of the per-step losses,
\* the sequence length counting every step and the batch size being 1.
C5_AggregateLoss ==
    (HasRun /\ Fed(LastFeed, "input_iswrite") /\ Fed(LastFeed, "targets")) =>
        /\ Len(LastFeed.input_data) = 1
        /\ tensors.loss.den > 0
        /\ tensors.loss.num * (Steps * Len(LastFeed.input_data))
              = reduce_sum(tensors.seq_loss) * tensors.loss.den

\* C5 witness: a pass of several steps, some of them read steps, with a
\* positive sum of losses
C5_Witness ==
    /\ pc = "tested"
    /\ Steps = 3
    /\ \E t \in 1..Steps : ~LastFeed.input_iswrite[1][t]
    /\ reduce_sum(tensors.seq_loss) > 0

\* C6: in the attention variant the entity cache fed to every decoding step
\* has one time step and entity_cache_size slots.
CacheShapeOK(ent) ==
    /\ Len(ent) = batch_size
    /\ Len(ent[1]) = 1
    /\ Len(ent[1][1]) = entity_cache_size

C2_StateContinuity ==
    (pc \in {"decode", "done", "raised"} /\ init_state # None) =>
        /\ pc # "raised"
        /\ sess_runs # <<>> => StartOf(sess_runs[1]) = init_state

====
